---- MODULE Spec2Model ----
(***************************************************************************)
(* Model of auslaw-mcp: the AustLII search service (searchAustLii), the    *)
(* document fetcher (fetchDocumentText) and the three MCP tool handlers    *)
(* that call them.                                                         *)
(*                                                                         *)
(* Text is modelled as a sequence of atoms.  An atom is either a single    *)
(* character (where a regular expression of the code looks at characters:  *)
(* brackets, digits, capitals, blanks) or a whole word / path segment that *)
(* no pattern of the code can match a part of.  The string the atoms stand *)
(* for is their concatenation, so "" is << >>, concatenation is \o and     *)
(* String.includes is an infix test.                                       *)
(* An optional value (T | undefined) is a set with at most one element.    *)
(***************************************************************************)
EXTENDS Integers, Sequences, FiniteSets, TLC

VARIABLES pc, call, sent, listing, failure, results, error, fetched, resource

vars == <<pc, call, sent, listing, failure, results, error, fetched, resource>>

(* ------------------------------ bounds -------------------------------- *)

\* longest index listing enumerated entry by entry
MaxListing == 2
\* largest explicit limit a caller passes
MaxLimit == 2
\* largest paragraph number / page count of a fetched document
MaxParas == 3

(* ----------------------------- optionals ------------------------------ *)

None == {}

Some(v) == {v}

The(o) == CHOOSE v \in o : TRUE

(* ------------------------------- text --------------------------------- *)

Digits == {"0", "1", "2", "3", "4", "5", "6", "7", "8", "9"}

Uppers == {"A", "C", "F", "H", "V", "S"}

Blanks == {" ", "\n"}

IsDigit(a) == a \in Digits

IsBlank(a) == a \in Blanks

\* String.prototype.includes
Includes(s, pat) ==
  \E i \in 1..(Len(s) - Len(pat) + 1) : SubSeq(s, i, i + Len(pat) - 1) = pat

\* String.prototype.trim
Trim(s) ==
  LET keep == {i \in 1..Len(s) : ~IsBlank(s[i])}
  IN  IF keep = {} THEN << >>
      ELSE SubSeq(s, CHOOSE i \in keep : \A j \in keep : i <= j,
                     CHOOSE i \in keep : \A j \in keep : i >= j)

\* first index k >= i with k past the end of s or s[k] outside the class
SkipWhile(s, i, class) ==
  CHOOSE k \in i..(Len(s) + 1) :
    /\ (k = Len(s) + 1 \/ s[k] \notin class)
    /\ \A m \in i..(k - 1) : s[m] \in class

(* ------------------------ program constants --------------------------- *)

\* austlii.ts:48  options.limit ?? 10
DEFAULT_LIMIT == 10

\* austlii.ts:62  timeout: 15000
TIMEOUT_MS == 15000

\* index.ts:27  z.number().int().min(1).max(50)
MIN_LIMIT == 1

MAX_LIMIT == 50

\* austlii.ts:22
AUSTLII_SEARCH_BASE ==
  <<"https:", "/", "/", "classic.austlii.edu.au", "/", "cgi-bin", "/", "sinosrch.cgi">>

\* austlii.ts:78  the prefix put before a relative href
AUSTLII_HOST == <<"http:", "/", "/", "classic.austlii.edu.au">>

\* austlii.ts:103  the alternatives of the jurisdiction pattern
JurisdictionCodes == {"cth", "vic", "nsw", "qld", "sa", "wa", "tas", "nt", "act"}

(* ----------------------- searchAustLii: parsing ----------------------- *)

\* String.prototype.startsWith("http") on the first atom
StartsWithHttp(s) == Len(s) > 0 /\ s[1] \in {"http:", "https:"}

\* String.prototype.toLowerCase on one atom (the /i flag of the pattern)
Lower(a) ==
  CASE a = "NSW" -> "nsw"
    [] a = "VIC" -> "vic"
    [] a = "CASES" -> "cases"
    [] OTHER -> a

\* /\[(\d{4})\]\s*([A-Z]+)\s*(\d+)/ anchored at index i: the index after the
\* match, or 0 when the pattern does not match there.  The classes that
\* follow each other are disjoint, so the greedy scan is the only match.
MatchEndAt(s, i) ==
  IF /\ i + 5 <= Len(s)
     /\ s[i] = "["
     /\ \A k \in (i + 1)..(i + 4) : IsDigit(s[k])
     /\ s[i + 5] = "]"
  THEN LET a == SkipWhile(s, i + 6, Blanks)
           b == SkipWhile(s, a, Uppers)
           c == SkipWhile(s, b, Blanks)
           d == SkipWhile(s, c, Digits)
       IN  IF b > a /\ d > c THEN d ELSE 0
  ELSE 0

\* title.match(...): the leftmost match, as [index, end) of the title
citationMatch(title) ==
  LET hits == {i \in 1..Len(title) : MatchEndAt(title, i) > 0}
  IN  IF hits = {} THEN None
      ELSE LET i == CHOOSE h \in hits : \A g \in hits : h <= g
           IN  Some([from |-> i, to |-> MatchEndAt(title, i) - 1])

\* citationMatch[0]
neutralCitationOf(title) ==
  LET m == citationMatch(title)
  IN  IF m = None THEN None ELSE Some(SubSeq(title, The(m).from, The(m).to))

\* yearOf with the wrong capture group: the number after the court code
yearOf_Number(title) ==
  LET m == citationMatch(title)
  IN  IF m = None THEN None
      ELSE LET d == CHOOSE k \in The(m).from..The(m).to :
                      \A j \in k..The(m).to : title[j] \in Digits
                      /\ title[k - 1] \notin Digits
           IN  Some(SubSeq(title, d, The(m).to))

\* citationMatch[1]: the four digits between the brackets
yearOf(title) ==
  LET m == citationMatch(title)
  IN  IF m = None THEN None
      ELSE Some(SubSeq(title, The(m).from + 1, The(m).from + 4))

\* url.match(/\/au\/cases\/(cth|vic|nsw|qld|sa|wa|tas|nt|act)\//i)?.[1]?.toLowerCase()
jurisdictionOf(url) ==
  LET hits == {i \in 1..(Len(url) - 6) :
                 /\ url[i] = "/" /\ Lower(url[i + 1]) = "au"
                 /\ url[i + 2] = "/" /\ Lower(url[i + 3]) = "cases"
                 /\ url[i + 4] = "/" /\ Lower(url[i + 5]) \in JurisdictionCodes
                 /\ url[i + 6] = "/"}
  IN  IF hits = {} THEN None
      ELSE LET i == CHOOSE h \in hits : \A g \in hits : h <= g
           IN  Some(Lower(url[i + 5]))

\* austlii.ts:74-79  href made absolute
absoluteUrl(href) ==
  LET url == IF href = None THEN << >> ELSE The(href)
  IN  IF url # << >> /\ ~StartsWithHttp(url) THEN AUSTLII_HOST \o url ELSE url

\* keepEntry without the journal test
keepEntry_NoJournalTest(title, url, options) ==
  /\ title # << >>
  /\ url # << >>
  /\ ~(options.type = "case" /\ ~Includes(url, <<"/", "cases", "/">>))
  /\ ~(options.type = "legislation" /\ ~Includes(url, <<"/", "legis", "/">>))

\* keepEntry without the legislation test
keepEntry_NoLegisTest(title, url, options) ==
  /\ title # << >>
  /\ url # << >>
  /\ ~Includes(url, <<"/", "journals", "/">>)
  /\ ~(options.type = "case" /\ ~Includes(url, <<"/", "cases", "/">>))

\* austlii.ts:81-95  the tests that let an entry through
keepEntry(title, url, options) ==
  /\ title # << >>
  /\ url # << >>
  /\ ~Includes(url, <<"/", "journals", "/">>)
  /\ ~(options.type = "case" /\ ~Includes(url, <<"/", "cases", "/">>))
  /\ ~(options.type = "legislation" /\ ~Includes(url, <<"/", "legis", "/">>))

\* austlii.ts:110-120  the record pushed for an entry that is kept
makeResult(li, title, url, options) ==
  [title |-> title,
   citation |-> None,
   neutralCitation |-> neutralCitationOf(title),
   url |-> url,
   source |-> "austlii",
   summary |-> IF li.small = None THEN None ELSE Some(Trim(The(li.small))),
   jurisdiction |-> jurisdictionOf(url),
   year |-> yearOf(title),
   type |-> options.type]

\* austlii.ts:70-122  the body of the .each callback: << >> or <<record>>
parseEntry(li, options) ==
  LET title == Trim(li.text)
      url == absoluteUrl(li.href)
  IN  IF keepEntry(title, url, options)
      THEN <<makeResult(li, title, url, options)>>
      ELSE << >>

\* austlii.ts:70  $("ol li").each(...), in document order
RECURSIVE parseListing(_, _)
parseListing(lis, options) ==
  IF lis = << >> THEN << >>
  ELSE parseEntry(Head(lis), options) \o parseListing(Tail(lis), options)

\* slice(0, n + 1)
Slice0_OneMore(s, n) == SubSeq(s, 1, IF n + 1 < Len(s) THEN n + 1 ELSE Len(s))

\* Array.prototype.slice(0, n) for n >= 0
Slice0(s, n) == SubSeq(s, 1, IF n < Len(s) THEN n ELSE Len(s))

\* austlii.ts:48
limitOf(options) == IF options.limit = None THEN DEFAULT_LIMIT ELSE The(options.limit)

\* austlii.ts:65-124  the value searchAustLii resolves to
searchResults(lis, options) == Slice0(parseListing(lis, options), limitOf(options))

\* austlii.ts:30-40
buildSearchParams(query, options) ==
  [query |-> query, meta |-> <<"/", "austlii">>, mask_path |-> None]

\* austlii.ts:50-63  the one GET request
searchRequest(query, options) ==
  LET searchParams == buildSearchParams(query, options)
  IN  [base |-> AUSTLII_SEARCH_BASE,
       method |-> "boolean",
       query |-> searchParams.query,
       meta |-> searchParams.meta,
       results |-> limitOf(options),
       view |-> "date",
       timeout |-> TIMEOUT_MS]

\* austlii.ts:125-130  what the catch block throws for an AxiosError
searchFailure(cause) ==
  [name |-> "Error", message |-> <<"AustLII search failed: ">> \o cause.message]

(* ------------------------- fetchDocumentText --------------------------- *)

\* part_000:9-18
fetchDocumentText(url) ==
  [text |-> << >>, contentType |-> << >>, sourceUrl |-> url, ocrUsed |-> FALSE]

(* ----------------------------- tool layer ------------------------------ *)

\* index.ts:25-29, 55-59  the zod shape of both search tools
validSearchInput(raw) ==
  /\ Len(raw.query) >= 1
  /\ raw.limit # None => (The(raw.limit) >= MIN_LIMIT /\ The(raw.limit) <= MAX_LIMIT)

\* index.ts:85  z.string().url(): an absolute URL with a scheme and a host
validUrl(url) ==
  /\ Len(url) >= 4
  /\ url[1] \in {"http:", "https:"}
  /\ url[2] = "/" /\ url[3] = "/"
  /\ url[4] \notin {"/", " "}

\* index.ts:44-49, 74-79  the options object handed to searchAustLii
searchOptions(type, raw) ==
  [type |-> type, jurisdiction |-> raw.jurisdiction, limit |-> raw.limit,
   sortBy |-> raw.sortBy]

(* --------------------------- the environment --------------------------- *)

TitleMabo ==
  <<" ", "Mabo", " ", "v", " ", "Queensland", " ",
    "[", "1", "9", "9", "2", "]", " ", "H", "C", "A", " ", "2", "3", "\n">>

TitleTight == <<"[", "2", "0", "2", "5", "]", "H", "C", "A", "2", "6">>

TitleFiveDigits ==
  <<"Smith", " ", "[", "1", "2", "0", "2", "5", "]", " ", "H", "C", "A", " ", "1">>

TitleLowerCode == <<"[", "2", "0", "2", "5", "]", " ", "hca", " ", "2", "6">>

TitleAct == <<"Privacy", " ", "Act", " ", "1", "9", "8", "8">>

TitleTwo ==
  <<"[", "2", "0", "2", "0", "]", " ",
    "[", "2", "0", "2", "4", "]", "\n", " ", "F", "C", "A", " ", "7", " ",
    "[", "2", "0", "1", "9", "]", " ", "V", "S", "C", " ", "3">>

TitleBlank == <<" ", "\n">>

HrefCaseCth ==
  <<"https:", "/", "/", "www.austlii.edu.au", "/", "au", "/", "cases", "/", "cth",
    "/", "HCA", "/", "1992", "/", "23.html">>

HrefCaseVic ==
  <<"/", "au", "/", "cases", "/", "vic", "/", "VSC", "/", "2025", "/", "26.html">>

HrefCaseNsw ==
  <<"/", "au", "/", "cases", "/", "NSW", "/", "NSWSC", "/", "2025", "/", "1.html">>

HrefLegisCth ==
  <<"/", "au", "/", "legis", "/", "cth", "/", "consol_act", "/", "pa1988108", "/">>

HrefJournal ==
  <<"/", "au", "/", "journals", "/", "MelbULawRw", "/", "cases", "/", "legis",
    "/", "1.html">>

HrefBoth ==
  <<"/", "au", "/", "legis", "/", "vic", "/", "cases", "/", "7.html">>

HrefNoSlash == <<"..", "/", "au", "/", "legis", "/", "vic", "/", "x.html">>

Li(text, href, small) == [text |-> text, href |-> href, small |-> small]

\* the <li> elements an index listing is made of
Entries ==
  { Li(TitleMabo, Some(HrefCaseCth), Some(<<" ", "Native", " ", "title", " ">>)),
    Li(TitleTight, Some(HrefCaseVic), None),
    Li(TitleAct, Some(HrefLegisCth), None),
    Li(TitleMabo, Some(HrefJournal), Some(<<"commentary">>)),
    Li(TitleFiveDigits, Some(HrefCaseNsw), None),
    Li(TitleBlank, Some(HrefCaseVic), None),
    Li(TitleLowerCode, None, None),
    Li(TitleTwo, Some(HrefBoth), None),
    Li(TitleAct, Some(HrefNoSlash), None) }

SeqsUpTo(S, n) == UNION {[1..k -> S] : k \in 0..n}

\* s repeated to length n
Cycle(s, n) == [i \in 1..n |-> s[((i - 1) % Len(s)) + 1]]

\* listings enumerated entry by entry, and listings longer than the default
\* limit made of two entries alternating
Listings ==
  SeqsUpTo(Entries, MaxListing)
    \cup {Cycle(<<e, f>>, DEFAULT_LIMIT + 1) : e, f \in Entries}

QueryMabo == <<"Mabo", " ", "v", " ", "Queensland">>

QueryNegligence == <<"negligence", " ", "duty", " ", "of", " ", "care">>

Queries == {QueryMabo, QueryNegligence}

Jurisdictions == {"cth", "vic", "federal", "other"}

SortModes == {"relevance", "date", "auto"}

\* raw tool input, before validation
RawSearchInputs ==
  [query : Queries \cup {<< >>},
   jurisdiction : {None} \cup {Some(j) : j \in Jurisdictions},
   limit : {None} \cup {Some(n) : n \in (0..MaxLimit) \cup {MAX_LIMIT + 1}},
   sortBy : {None} \cup {Some(m) : m \in SortModes}]

\* the ways axios.get rejects: no connection, a status outside 2xx, the timeout
AxiosErrors ==
  { [code |-> "ERR_NETWORK", message |-> <<"Network Error">>],
    [code |-> "ERR_BAD_RESPONSE", message |-> <<"Request failed with status code 500">>],
    [code |-> "ERR_BAD_REQUEST", message |-> <<"Request failed with status code 404">>],
    [code |-> "ECONNABORTED", message |-> <<"timeout of 15000ms exceeded">>] }

UrlPdf ==
  <<"https:", "/", "/", "www.austlii.edu.au", "/", "au", "/", "cases", "/", "cth",
    "/", "HCA", "/", "1992", "/", "23.pdf">>

FetchUrls == {HrefCaseCth, UrlPdf, HrefCaseVic, <<"not", " ", "a", " ", "url">>, << >>}

\* what is behind a URL: an HTML page with paragraphs numbered 1..paras, a
\* PDF whose text layer has textLayer characters and whose pages OCR reads,
\* a server answering with an error status, or nothing reachable
Resources ==
  [kind : {"html"}, paras : 0..MaxParas]
    \cup [kind : {"pdf"}, textLayer : {0, 99, 100, 5000}, pages : 1..MaxParas]
    \cup [kind : {"status"}, code : {404, 500}]
    \cup [kind : {"unreachable"}]

(* ---------------------------- state machine ---------------------------- *)

NoCall == [op |-> "none"]

Init ==
  /\ pc = "idle"
  /\ call = NoCall
  /\ sent = << >>
  /\ listing = << >>
  /\ failure = None
  /\ results = << >>
  /\ error = None
  /\ fetched = None
  /\ resource = [kind |-> "none"]

\* index.ts:41-51, 71-81 up to the await inside searchAustLii (austlii.ts:46-63)
StartSearch(tool, type, raw) ==
  /\ pc = "idle"
  /\ IF validSearchInput(raw)
     THEN /\ pc' = "awaiting"
          /\ call' = [op |-> tool, query |-> raw.query,
                      options |-> searchOptions(type, raw)]
          /\ sent' = <<searchRequest(raw.query, searchOptions(type, raw))>>
          /\ error' = error
     ELSE /\ pc' = "rejected"
          /\ call' = [op |-> tool, raw |-> raw]
          /\ sent' = sent
          /\ error' = Some([name |-> "ZodError", message |-> << >>])
  /\ UNCHANGED <<listing, failure, results, fetched, resource>>

search_legislation == \E raw \in RawSearchInputs : StartSearch("search_legislation", "legislation", raw)

search_cases == \E raw \in RawSearchInputs : StartSearch("search_cases", "case", raw)

\* austlii.ts:65-124  the request resolves with a 2xx page
IndexResponds ==
  /\ pc = "awaiting"
  /\ \E lis \in Listings :
       /\ listing' = lis
       /\ results' = searchResults(lis, call.options)
  /\ pc' = "returned"
  /\ UNCHANGED <<call, sent, failure, error, fetched, resource>>

\* a catch block that sends the request once more before giving up
onAxiosError_Retry(cause) ==
  /\ error' = Some(searchFailure(cause))
  /\ sent' = Append(sent, sent[1])
  /\ pc' = "failed"

\* austlii.ts:125-130  the request rejects
onAxiosError(cause) ==
  /\ error' = Some(searchFailure(cause))
  /\ sent' = sent
  /\ pc' = "failed"

IndexFails ==
  /\ pc = "awaiting"
  /\ \E cause \in AxiosErrors : failure' = Some(cause) /\ onAxiosError(cause)
  /\ UNCHANGED <<call, listing, results, fetched, resource>>

\* index.ts:98-102
fetch_document_text ==
  /\ pc = "idle"
  /\ \E url \in FetchUrls, res \in Resources :
       IF validUrl(url)
       THEN /\ pc' = "fetched"
            /\ call' = [op |-> "fetch_document_text", url |-> url]
            /\ resource' = res
            /\ fetched' = Some(fetchDocumentText(url))
            /\ error' = error
       ELSE /\ pc' = "rejected"
            /\ call' = [op |-> "fetch_document_text", url |-> url]
            /\ resource' = resource
            /\ fetched' = fetched
            /\ error' = Some([name |-> "ZodError", message |-> << >>])
  /\ UNCHANGED <<sent, listing, failure, results>>

\* part_000:9-18  the exported function called without the tool's validation
CallFetchDocumentText ==
  /\ pc = "idle"
  /\ \E url \in FetchUrls, res \in Resources :
       /\ call' = [op |-> "fetchDocumentText", url |-> url]
       /\ resource' = IF validUrl(url) THEN res ELSE [kind |-> "none"]
       /\ fetched' = Some(fetchDocumentText(url))
  /\ pc' = "fetched"
  /\ UNCHANGED <<sent, listing, failure, results, error>>

Next ==
  \/ search_legislation
  \/ search_cases
  \/ IndexResponds
  \/ IndexFails
  \/ fetch_document_text
  \/ CallFetchDocumentText

Spec == Init /\ [][Next]_vars

(* ------------------------------- claims -------------------------------- *)

JournalSegment == <<"/", "journals", "/">>

CasesSegment == <<"/", "cases", "/">>

LegisSegment == <<"/", "legis", "/">>

\* C1 - journal exclusion: no record returned by a successful search, of
\* either kind, has a URL containing the segment /journals/.
C1_JournalExclusion ==
  pc = "returned" =>
    \A k \in 1..Len(results) : ~Includes(results[k].url, JournalSegment)

\* a successful case search that kept a record and whose listing held a
\* journal entry with a title and a /cases/ segment
C1_Witness ==
  /\ pc = "returned"
  /\ call.options.type = "case"
  /\ results # << >>
  /\ \E i \in 1..Len(listing) :
       /\ Trim(listing[i].text) # << >>
       /\ Includes(absoluteUrl(listing[i].href), JournalSegment)
       /\ Includes(absoluteUrl(listing[i].href), CasesSegment)

\* C2 - kind consistency: every record of a case search has /cases/ in its
\* URL, every record of a legislation search has /legis/, and every record's
\* type is the requested type.
C2_KindConsistency ==
  pc = "returned" =>
    \A k \in 1..Len(results) :
      /\ results[k].type = call.options.type
      /\ call.options.type \in {"case", "legislation"}
      /\ call.options.type = "case" => Includes(results[k].url, CasesSegment)
      /\ call.options.type = "legislation" => Includes(results[k].url, LegisSegment)

\* a legislation search that kept a record and dropped a titled case entry
C2_Witness ==
  /\ pc = "returned"
  /\ call.options.type = "legislation"
  /\ results # << >>
  /\ \E i \in 1..Len(listing) :
       /\ Trim(listing[i].text) # << >>
       /\ Includes(absoluteUrl(listing[i].href), CasesSegment)
       /\ ~Includes(absoluteUrl(listing[i].href), LegisSegment)
       /\ ~Includes(absoluteUrl(listing[i].href), JournalSegment)

Capitalised == {"Mabo", "Queensland", "Smith", "Jones"}

\* the case-name pattern of the tool description: X v Y or X v. Y
isCaseNameQuery(q) ==
  \E i \in 1..(Len(q) - 4) :
    /\ q[i] \in Capitalised
    /\ q[i + 1] = " "
    /\ q[i + 2] \in {"v", "v."}
    /\ q[i + 3] = " "
    /\ q[i + 4] \in Capitalised

\* the sort directive the tool description promises for a sort mode
resolveSortMode(sortBy, q) ==
  LET mode == IF sortBy = None THEN "auto" ELSE The(sortBy)
  IN  CASE mode = "date" -> "date"
        [] mode = "relevance" -> "relevance"
        [] OTHER -> IF isCaseNameQuery(q) THEN "relevance" ELSE "date"

\* C3 - sort-mode resolution: the view directive of the request is date for
\* sortBy = date, relevance for sortBy = relevance, and for auto (or no
\* sortBy) relevance when the query is a case name and date otherwise.
C3_SortModeResolution ==
  sent # << >> =>
    sent[1].view = resolveSortMode(call.options.sortBy, call.query)

\* indexes of the listing entries that pass the filters
Surviving(lis, options) ==
  {i \in 1..Len(lis) :
     keepEntry(Trim(lis[i].text), absoluteUrl(lis[i].href), options)}

\* C4 - limit and order: a successful search returns min(limit, survivors)
\* records (limit 10 when not given), and the k-th record comes from the
\* k-th surviving entry of the listing.
C4_LimitAndOrder ==
  pc = "returned" =>
    LET S == Surviving(listing, call.options)
        limit == IF call.options.limit = None THEN 10 ELSE The(call.options.limit)
    IN  /\ Len(results) <= limit
        /\ Len(results) = (IF Cardinality(S) < limit THEN Cardinality(S) ELSE limit)
        /\ \A k \in 1..Len(results) :
             \E i \in S :
               /\ Cardinality({j \in S : j <= i}) = k
               /\ results[k].title = Trim(listing[i].text)
               /\ results[k].url = absoluteUrl(listing[i].href)
               /\ results[k].summary =
                    (IF listing[i].small = None THEN None
                     ELSE Some(Trim(The(listing[i].small))))

\* a search without a limit cut to 10 records of two different entries
C4_Witness ==
  /\ pc = "returned"
  /\ call.options.limit = None
  /\ Len(results) = 10
  /\ Cardinality(Surviving(listing, call.options)) > 10
  /\ results[1].url # results[2].url

\* the whole of c is [dddd], blanks, capitals, blanks, digits
IsNeutralCitation(c) ==
  /\ Len(c) >= 8
  /\ c[1] = "[" /\ c[6] = "]"
  /\ \A k \in 2..5 : c[k] \in Digits
  /\ c[Len(c)] \in Digits
  /\ \E a \in 7..Len(c) :
       /\ \A k \in 7..(a - 1) : c[k] \in Blanks
       /\ \E b \in a..Len(c) :
            /\ \A k \in a..b : c[k] \in Uppers
            /\ \E d \in (b + 1)..Len(c) :
                 /\ \A k \in (b + 1)..(d - 1) : c[k] \in Blanks
                 /\ \A k \in d..Len(c) : c[k] \in Digits

ContainsCitation(t) ==
  \E i \in 1..Len(t) :
    t[i] = "[" /\ \E j \in i..Len(t) : IsNeutralCitation(SubSeq(t, i, j))

\* C5 - citation format: a record's neutralCitation, when present, is
\* [4 digits] capitals number and its year is those 4 digits; a record whose
\* title holds no such pattern has neither.
C5_CitationFormat ==
  pc = "returned" =>
    \A k \in 1..Len(results) :
      LET r == results[k]
      IN  /\ r.neutralCitation # None =>
               /\ IsNeutralCitation(The(r.neutralCitation))
               /\ r.year = Some(SubSeq(The(r.neutralCitation), 2, 5))
          /\ ~ContainsCitation(r.title) =>
               (r.neutralCitation = None /\ r.year = None)

\* one record with a citation cut out of a longer title, one without
C5_Witness ==
  /\ pc = "returned"
  /\ \E k \in 1..Len(results) :
       /\ results[k].neutralCitation # None
       /\ Len(The(results[k].neutralCitation)) < Len(results[k].title)
  /\ \E k \in 1..Len(results) :
       /\ results[k].neutralCitation = None
       /\ results[k].year = None

\* C6 - OCR trigger: a PDF whose text layer has fewer than 100 characters
\* comes back with ocrUsed and a non-empty text; a PDF with a substantial
\* text layer comes back without ocrUsed and with its text.
C6_OcrTrigger ==
  (pc = "fetched" /\ resource.kind = "pdf") =>
    /\ The(fetched).text # << >>
    /\ The(fetched).ocrUsed = (resource.textLayer < 100)

Marker(n) == <<"[", ToString(n), "]">>

\* C7 - paragraph preservation: the text of an HTML document with
\* paragraphs numbered 1..N holds the markers [1] .. [N] in that order.
C7_ParagraphPreservation ==
  (pc = "fetched" /\ resource.kind = "html") =>
    \E pos \in [1..resource.paras -> 1..Len(The(fetched).text)] :
      /\ \A n \in 1..resource.paras :
           SubSeq(The(fetched).text, pos[n], pos[n] + 2) = Marker(n)
      /\ \A n \in 1..(resource.paras - 1) : pos[n] < pos[n + 1]

\* C8 - search transport failure: when the request fails, the search ends
\* in an error that names the search failure and carries the cause's
\* message, returns no records, and has sent exactly one request.
C8_TransportFailure ==
  /\ pc \in {"awaiting", "returned", "failed"} => Len(sent) = 1
  /\ pc = "failed" =>
       /\ failure # None
       /\ error # None
       /\ Len(The(error).message) = 1 + Len(The(failure).message)
       /\ Head(The(error).message) = "AustLII search failed: "
       /\ Tail(The(error).message) = The(failure).message
       /\ results = << >>
       /\ ~ENABLED Next

\* a search that failed on the timeout
C8_Witness ==
  /\ pc = "failed"
  /\ failure # None
  /\ The(failure).code = "ECONNABORTED"

\* C9 - fetch error outcomes: fetchDocumentText returns a document only for
\* a well-formed absolute URL whose resource answered with success.
C9_FetchErrors ==
  pc = "fetched" =>
    /\ validUrl(call.url)
    /\ resource.kind \in {"html", "pdf"}

\* C10 - jurisdiction filter: with a jurisdiction requested, no returned
\* record belongs to another jurisdiction.
C10_JurisdictionFilter ==
  (pc = "returned" /\ call.options.jurisdiction # None
     /\ The(call.options.jurisdiction) \in JurisdictionCodes) =>
    \A k \in 1..Len(results) :
      results[k].jurisdiction \in {None, call.options.jurisdiction}

\* a relative reference without its leading ./ and ../ segments, which
\* resolve to nothing at the root of a host
RECURSIVE dropDotSegments(_)
dropDotSegments(ref) ==
  IF Len(ref) >= 2 /\ ref[1] \in {".", ".."} /\ ref[2] = "/"
  THEN dropDotSegments(SubSeq(ref, 3, Len(ref)))
  ELSE ref

\* reference resolution against the root of the index's base host: an
\* absolute reference stands, a reference starting with / replaces the
\* path, any other reference is a path below the root
resolveAgainstHost(ref) ==
  IF StartsWithHttp(ref) THEN ref
  ELSE IF ref[1] = "/" THEN AUSTLII_HOST \o ref
  ELSE AUSTLII_HOST \o <<"/">> \o dropDotSegments(ref)

\* the listing index of the k-th entry that passes the filters
SurvivorAt(lis, options, k) ==
  CHOOSE i \in Surviving(lis, options) :
    Cardinality({j \in Surviving(lis, options) : j <= i}) = k

\* C11 - record well-formedness: every emitted record has a non-empty title
\* and a non-empty, well-formed absolute URL, which is its entry's href
\* resolved against the index's base host; no record comes from an entry
\* with an empty title or without an href.
C11_RecordWellFormed ==
  pc = "returned" =>
    \A k \in 1..Len(results) :
      LET li == listing[SurvivorAt(listing, call.options, k)]
      IN  /\ results[k].title # << >>
          /\ results[k].url # << >>
          /\ validUrl(results[k].url)
          /\ Trim(li.text) # << >>
          /\ li.href # None
          /\ The(li.href) # << >>
          /\ results[k].url = resolveAgainstHost(The(li.href))

====
